---------------------------- MODULE Spec2Model ----------------------------
(***************************************************************************)
(* Model of createTemperatureLookUp.py: main(argv) as a sequential state   *)
(* machine (option parsing, effective max ADC, sampling, rendering of the  *)
(* C table on stdout), the Thermistor class, and the shell invoking the    *)
(* script.                                                                 *)
(*                                                                         *)
(* Numbers.  Python floats are modelled in fixed point over the integers:  *)
(* resistances in ohm, vcc in millivolt (1000*vcc), temperatures in degree *)
(* Celsius, absolute temperatures in centikelvin, natural logarithms in    *)
(* units of 10^-5.  The text of a number on the command line and in the    *)
(* header is a lexeme [lex, n]: an integer literal ("4700"), a float       *)
(* literal ("4700.0") or text that is no number ("abc"); n is the value in *)
(* the unit of the option the text belongs to.                             *)
(***************************************************************************)
EXTENDS Integers, Sequences, FiniteSets, TLC

\* ------------------------------------------------------------------ bounds
\* longest argument list of the command lines enumerated by Init
MaxArgs == 2
\* largest --max-adc of the sweep over ADC ranges enumerated by Init
MaxSweepAdc == 300
\* longest argument list of the first of two runs
MaxRerunArgs == 1

\* ----------------------------------------------------- defaults, lines 65-72
DefaultR0 == 100000
DefaultT0 == 25
DefaultBeta == 4267
DefaultR1 == 0
DefaultR2 == 4700
DefaultNumTemps == 61
\* vcc = 3.279, in millivolt
DefaultVccMilli == 3279
DefaultMaxAdcRaw == 1023

\* --------------------------------------------------------------- lexemes
IntLit(n) == [lex |-> "int", n |-> n]
FloatLit(n) == [lex |-> "float", n |-> n]
Junk == [lex |-> "junk", n |-> 0]
NoArg == [lex |-> "none", n |-> 0]

\* a Python number: an int or a float
PyIntVal(n) == [ty |-> "int", n |-> n]
PyFloatVal(n) == [ty |-> "float", n |-> n]

\* int(arg): accepts an integer literal only; anything else is a ValueError
IntParses(arg) == arg.lex = "int"
IntOf(arg) == PyIntVal(arg.n)

\* float(arg): accepts an integer or a float literal
FloatParses(arg) == arg.lex \in {"int", "float"}
FloatOf(arg) == PyFloatVal(arg.n)

\* "%s" % value: an int prints as an integer literal, a float with its point
FormatS(v) == [lex |-> v.ty, n |-> v.n]

\* ------------------------------------------------------------ command line
\* An element of argv: "--name=arg" (kind long, arg a lexeme), "--name"
\* (kind long, arg NoArg), "-h" (kind short) or a word that is no option.
Long(name, arg) == [kind |-> "long", name |-> name, arg |-> arg]
Short(name) == [kind |-> "short", name |-> name, arg |-> NoArg]
Word(text) == [kind |-> "word", name |-> "", arg |-> text]

\* the long options of line 75 that take a value ("r0=", ...)
ValuedOptions == {"r0", "t0", "beta", "r1", "r2", "max-adc", "vcc"}
\* the long options of line 75 that take none
FlagOptions == {"help"}
\* the short options of line 75 ("h")
ShortOptions == {"h"}

\* the text of an element read as an option's value: only a word can be a number
TextOf(e) == IF e.kind = "word" THEN e.arg ELSE Junk

\* the name main compares opt against
OptName(e) == IF e.kind = "short" THEN "-" \o e.name ELSE "--" \o e.name

\* getopt.getopt(argv, "h", [...]): scans argv from the left while the
\* elements are options; result [ok, opts], opts the (opt, arg) pairs.
\* GetoptError: an option that is not recognized, a flag given a value, a
\* valued option with no value left to take.
RECURSIVE Getopt(_, _)
Getopt(rest, acc) ==
    IF rest = <<>> THEN [ok |-> TRUE, opts |-> acc]
    ELSE LET e == Head(rest) IN
         CASE e.kind = "word" -> [ok |-> TRUE, opts |-> acc]
           [] e.kind = "short" ->
                IF e.name \in ShortOptions
                THEN Getopt(Tail(rest), Append(acc, [opt |-> OptName(e), arg |-> NoArg]))
                ELSE [ok |-> FALSE, opts |-> <<>>]
           [] e.kind = "long" ->
                IF e.name \in FlagOptions
                THEN IF e.arg = NoArg
                     THEN Getopt(Tail(rest), Append(acc, [opt |-> OptName(e), arg |-> NoArg]))
                     ELSE [ok |-> FALSE, opts |-> <<>>]
                ELSE IF e.name \in ValuedOptions
                THEN IF e.arg # NoArg
                     THEN Getopt(Tail(rest), Append(acc, [opt |-> OptName(e), arg |-> e.arg]))
                     ELSE IF Tail(rest) = <<>>
                          THEN [ok |-> FALSE, opts |-> <<>>]
                          ELSE Getopt(Tail(Tail(rest)),
                                      Append(acc, [opt |-> OptName(e),
                                                   arg |-> TextOf(Head(Tail(rest)))]))
                ELSE [ok |-> FALSE, opts |-> <<>>]

\* ------------------------------------------------------------- arithmetic
\* floor(log2(n)), n >= 1
RECURSIVE Log2Floor(_)
Log2Floor(n) == IF n < 2 THEN 0 ELSE 1 + Log2Floor(n \div 2)

RECURSIVE Pow2(_)
Pow2(e) == IF e = 0 THEN 1 ELSE 2 * Pow2(e - 1)

\* math.log(n) in units of 10^-5, n >= 1: n = 2^e * f, 1 <= f < 2,
\* ln f = 2 y (1 + y^2/3 + y^4/5 + y^6/7), y = (f-1)/(f+1)
Ln(n) ==
    LET e == Log2Floor(n)
        m == IF e <= 14 THEN n * Pow2(14 - e) ELSE n \div Pow2(e - 14)
        y == ((m - 16384) * 100000) \div (m + 16384)
        z == (y * y) \div 100000
        b == 20000 + (z * 14286) \div 100000
        c == 33333 + (z * b) \div 100000
        d == 100000 + (z * c) \div 100000
    IN  (e * 693147) \div 10 + 2 * ((y * (d \div 10)) \div 10000)

\* floor(100 * a / b) by long division, a >= 0, b > 0
Centi(a, b) ==
    LET q == a \div b
        r1_ == (a % b) * 10
        r2_ == (r1_ % b) * 10
    IN  q * 100 + (r1_ \div b) * 10 + (r2_ \div b)

\* beta / T0 in units of 10^-5, T0 in centikelvin and positive; quotients
\* of 1000 and more, far beyond what exp() can take, are all given as 1000
BetaOverT(beta_, T0c) ==
    LET a == beta_ * 100
    IN  IF a \div T0c >= 1000 THEN 100000000
        ELSE (a \div T0c) * 100000 + (((a % T0c) * 10000) \div T0c) * 10

\* math.exp(x) raises OverflowError above ln(max double) = 709.78 and
\* returns 0.0 below ln(min subnormal / 2) = -745.13 (units of 10^-5)
ExpOverflowAt == 70978271
ExpUnderflowAt == 74513322

\* t0 + 273.15, in centikelvin
AbsTemp(t0_) == 100 * t0_.n + 27315

\* k = r0 * exp(-beta / T0): [raises: exp overflows, zero: the product is
\* 0.0, ln: ln k in units of 10^-5 otherwise]
KConst(r0_, t0_, beta_) ==
    LET T0c == AbsTemp(t0_)
        x == IF T0c > 0 THEN BetaOverT(beta_.n, T0c) ELSE BetaOverT(beta_.n, 0 - T0c)
    IN  IF T0c < 0
        THEN [raises |-> x > ExpOverflowAt, zero |-> FALSE, ln |-> Ln(r0_.n) + x]
        ELSE [raises |-> FALSE, zero |-> x > ExpUnderflowAt, ln |-> Ln(r0_.n) - x]

\* Thermistor.__init__, lines 35-49: the object's fields
ThermistorInit(r0_, t0_, beta_, r1_, r2_, max_adc_, vcc_) ==
    [ r0 |-> r0_.n, t0 |-> AbsTemp(t0_), beta |-> beta_.n,
      vadc |-> vcc_.n, vcc |-> vcc_.n,
      k |-> KConst(r0_, t0_, beta_), max_adc |-> max_adc_,
      vs |-> IF r1_.n > 0 THEN (r1_.n * vcc_.n) \div (r1_.n + r2_.n) ELSE vcc_.n,
      rs |-> IF r1_.n > 0 THEN (r1_.n * r2_.n) \div (r1_.n + r2_.n) ELSE r2_.n ]

\* round(x) of a value given in hundredths
RoundCenti(c) == (c + 50) \div 100

\* beta / L - 273.15 rounded to an integer, L = ln(...) in units of 10^-5, L # 0
\* (beta up to 21474: beta * 10^5 stays below 2^31)
DegreesFromLog(beta_, L) ==
    IF L > 0
    THEN RoundCenti(Centi(beta_ * 100000, L) - 27315)
    ELSE RoundCenti(0 - Centi(beta_ * 100000, 0 - L) - 27315)

\* Thermistor.temp(adc), lines 51-55: v = adc*vadc/max_adc, r = rs*v/(vs-v),
\* beta/log(r/k) - 273.15; [raises: the exception's name or "", temp]
ThermistorTemp(th, adc) ==
    LET den == th.vs * th.max_adc - adc * th.vadc
        L == Ln(th.rs) + Ln(adc) + Ln(th.vadc) - Ln(den) - th.k.ln
    IN  IF den = 0 \/ th.k.zero THEN [raises |-> "ZeroDivisionError", temp |-> 0]
        ELSE IF den < 0 \/ th.rs <= 0 THEN [raises |-> "ValueError", temp |-> 0]
        ELSE IF L = 0 THEN [raises |-> "ZeroDivisionError", temp |-> 0]
        ELSE [raises |-> "", temp |-> DegreesFromLog(th.beta, L)]

\* line 134: 1000*vcc - 3320*v > 0 with v = adc/1024.0, both sides times 1024
LogBranch(adc, vcc_) == 1024 * vcc_.n - 3320 * adc > 0

\* line 135 for one code: v = adc/1024.0, k = r0*exp(-beta/T0),
\* int(round(beta / log((1000*vcc - 3320*v)/(k*v)) - 273.15));
\* the quotient is (1024*1000*vcc - 3320*adc) / (k*adc).
\* [raises: ZeroDivisionError (k*v = 0.0, or log(...) = 0.0), ValueError
\* (log of a number that is not positive), or "", temp]
LogTempWith1024(adc, r0_, t0_, beta_, vcc_) ==
    LET k == KConst(r0_, t0_, beta_)
        num == 1024 * vcc_.n - 3320 * adc
        L == Ln(num) - Ln(adc) - k.ln
    IN  IF k.zero THEN [raises |-> "ZeroDivisionError", temp |-> 0]
        ELSE IF num <= 0 THEN [raises |-> "ValueError", temp |-> 0]
        ELSE IF L = 0 THEN [raises |-> "ZeroDivisionError", temp |-> 0]
        ELSE [raises |-> "", temp |-> DegreesFromLog(beta_.n, L)]

\* len(range(start, stop, step)), step > 0
RangeLen(start, stop, step) ==
    IF start >= stop THEN 0 ELSE (stop - start - 1) \div step + 1

\* list(range(start, stop, step)), step > 0: the i-th item is start + (i-1)*step
Range(start, stop, step) ==
    [i \in 1..RangeLen(start, stop, step) |-> start + (i - 1) * step]

\* ------------------------------------------------------------------ state
VARIABLES
    argv,         \* sys.argv[1:]
    pc,           \* where main is
    opts,         \* getopt's (opt, arg) pairs
    oi,           \* position of the for loop of line 80 in opts
    r0, t0, beta, r1, r2, num_temps, vcc, max_adc_raw,
    max_adc, increment,
    t,            \* <<the Thermistor of line 105>>, <<>> before it is built
    adcs,
    counter,      \* rows done by the loop of line 129
    stdout,       \* the lines printed
    exit,         \* the process's exit status, Unset while it runs
    raised,       \* the exception that ended main, "" if none
    logged,       \* the codes for which line 135 was evaluated
    prev          \* <<what the previous run of the script left>>, <<>> on the first

vars == << argv, pc, opts, oi, r0, t0, beta, r1, r2, num_temps, vcc, max_adc_raw,
           max_adc, increment, t, adcs, counter, stdout, exit, raised, logged, prev >>

params == << r0, t0, beta, r1, r2, num_temps, vcc, max_adc_raw >>
derived == << max_adc, increment, t, adcs, counter, logged >>

Unset == 0 - 1

\* ------------------------------------------------------------- input sets
HelpTokens == { Short("h"), Long("help", NoArg) }

\* options whose value decides which codes are sampled
SamplingTokens ==
    { Long("r1", IntLit(4700)), Long("r2", IntLit(10000)),
      Long("max-adc", IntLit(119)), Long("max-adc", IntLit(59)) }

\* options whose value decides the temperature of a code
ThermalTokens ==
    { Long("r0", IntLit(10000)), Long("t0", IntLit(0 - 274)),
      Long("beta", IntLit(300000)), Long("vcc", FloatLit(1000)) }

\* what getopt or a conversion rejects, and what is no option at all
OddTokens ==
    { Long("bogus", NoArg), Long("t0", Junk), Long("t0", NoArg), Word(Junk) }

Tokens == HelpTokens \cup SamplingTokens \cup ThermalTokens \cup OddTokens

RECURSIVE ListsUpTo(_, _)
ListsUpTo(S, n) ==
    IF n = 0 THEN { <<>> }
    ELSE LET shorter == ListsUpTo(S, n - 1)
         IN  shorter \cup { Append(l, x) : l \in shorter, x \in S }

ArgLists == ListsUpTo(Tokens, MaxArgs)

\* one --max-adc per ADC range, alone or behind an upper divider resistor
SweepLists ==
    { <<Long("max-adc", IntLit(m))>> : m \in 1..MaxSweepAdc }
    \cup { <<Long("r1", IntLit(r)), Long("max-adc", IntLit(m))>> :
             r \in {4700, 10000}, m \in 1..MaxSweepAdc }

\* main's locals after lines 65-72, nothing printed, for a given command line
Start(av) ==
    /\ argv = av
    /\ pc = "getopt"
    /\ opts = <<>> /\ oi = 1
    /\ r0 = PyIntVal(DefaultR0)
    /\ t0 = PyIntVal(DefaultT0)
    /\ beta = PyIntVal(DefaultBeta)
    /\ r1 = PyIntVal(DefaultR1)
    /\ r2 = PyIntVal(DefaultR2)
    /\ num_temps = DefaultNumTemps
    /\ vcc = PyFloatVal(DefaultVccMilli)
    /\ max_adc_raw = PyIntVal(DefaultMaxAdcRaw)
    /\ max_adc = Unset /\ increment = Unset
    /\ t = <<>> /\ adcs = <<>> /\ counter = 0
    /\ stdout = <<>> /\ exit = Unset /\ raised = ""
    /\ logged = {}

Init == \E av \in ArgLists \cup SweepLists : Start(av) /\ prev = <<>>

\* ---------------------------------------------------------------- output
UsageLine == [line |-> "usage"]
DeclLine == [line |-> "decl"]
CloseLine == [line |-> "close"]
RowLine(adc, temp, last) == [line |-> "row", adc |-> adc, temp |-> temp, last |-> last]

\* the count printed where the rows' count belongs: the requested num_temps
NumTempsLineRequested == [line |-> "numtemps", n |-> num_temps]

\* line 125: #define NUMTEMPS len(adcs)
NumTempsLine == [line |-> "numtemps", n |-> Len(adcs)]

\* lines 114-126: three comment lines, the echoed command line, the seven
\* parameter lines, #define NUMTEMPS and the array declaration
EchoedMaxAdc == PyIntVal(max_adc)

HeaderLines ==
    << [line |-> "comment", text |-> "lookup table"],
       [line |-> "comment", text |-> "updated by"],
       [line |-> "comment", text |-> "made with"],
       [line |-> "echo", r0 |-> FormatS(r0), t0 |-> FormatS(t0), r1 |-> FormatS(r1),
        r2 |-> FormatS(r2), beta |-> FormatS(beta), max_adc |-> FormatS(EchoedMaxAdc),
        vcc |-> FormatS(vcc)],
       [line |-> "param", name |-> "r0", value |-> FormatS(r0)],
       [line |-> "param", name |-> "t0", value |-> FormatS(t0)],
       [line |-> "param", name |-> "r1", value |-> FormatS(r1)],
       [line |-> "param", name |-> "r2", value |-> FormatS(r2)],
       [line |-> "param", name |-> "beta", value |-> FormatS(beta)],
       [line |-> "param", name |-> "max adc", value |-> FormatS(PyIntVal(max_adc))],
       [line |-> "param", name |-> "vcc", value |-> FormatS(vcc)],
       NumTempsLine,
       DeclLine >>

\* ------------------------------------------------------------ main's steps
\* an uncaught exception: traceback on stderr, exit status 1
Raise(name) ==
    /\ raised' = name
    /\ exit' = 1
    /\ pc' = "exited"

\* lines 74-78, getopt raises GetoptError: usage(), sys.exit(2)
GetoptFails ==
    /\ pc = "getopt"
    /\ ~Getopt(argv, <<>>).ok
    /\ stdout' = Append(stdout, UsageLine)
    /\ exit' = 2
    /\ pc' = "exited"
    /\ UNCHANGED << argv, opts, oi, params, derived, raised, prev >>

\* lines 74-75, getopt returns
GetoptReturns ==
    /\ pc = "getopt"
    /\ Getopt(argv, <<>>).ok
    /\ opts' = Getopt(argv, <<>>).opts
    /\ oi' = 1
    /\ pc' = "options"
    /\ UNCHANGED << argv, params, derived, stdout, exit, raised, prev >>

\* lines 81-83: usage(), sys.exit()
OptionHelp ==
    /\ pc = "options" /\ oi <= Len(opts)
    /\ opts[oi].opt \in {"-h", "--help"}
    /\ stdout' = Append(stdout, UsageLine)
    /\ exit' = 0
    /\ pc' = "exited"
    /\ UNCHANGED << argv, opts, oi, params, derived, raised, prev >>

\* which conversion lines 84-97 apply to an option
IsIntOption(o) == o \in {"--t0", "--beta", "--max-adc"}
Converts(o, arg) == IF IsIntOption(o) THEN IntParses(arg) ELSE FloatParses(arg)
Converted(o, arg) == IF IsIntOption(o) THEN IntOf(arg) ELSE FloatOf(arg)

\* lines 84-97, the conversion succeeds: the option's variable is assigned
OptionValue ==
    /\ pc = "options" /\ oi <= Len(opts)
    /\ opts[oi].opt \notin {"-h", "--help"}
    /\ Converts(opts[oi].opt, opts[oi].arg)
    /\ LET o == opts[oi].opt
           v == Converted(o, opts[oi].arg)
       IN  /\ r0' = IF o = "--r0" THEN v ELSE r0
           /\ t0' = IF o = "--t0" THEN v ELSE t0
           /\ beta' = IF o = "--beta" THEN v ELSE beta
           /\ r1' = IF o = "--r1" THEN v ELSE r1
           /\ r2' = IF o = "--r2" THEN v ELSE r2
           /\ max_adc_raw' = IF o = "--max-adc" THEN v ELSE max_adc_raw
           /\ vcc' = IF o = "--vcc" THEN v ELSE vcc
    /\ oi' = oi + 1
    /\ UNCHANGED << argv, pc, opts, num_temps, derived, stdout, exit, raised, prev >>

\* lines 84-97, float(arg) or int(arg) raises ValueError
OptionValueError ==
    /\ pc = "options" /\ oi <= Len(opts)
    /\ opts[oi].opt \notin {"-h", "--help"}
    /\ ~Converts(opts[oi].opt, opts[oi].arg)
    /\ Raise("ValueError")
    /\ UNCHANGED << argv, opts, oi, params, derived, stdout, prev >>

\* the divider's other share: r2 / (r1 + r2) for r1 / (r1 + r2)
EffectiveMaxAdcLowerShare ==
    IF r1.n # 0 THEN (max_adc_raw.n * r2.n) \div (r1.n + r2.n) ELSE max_adc_raw.n

\* lines 99-102
EffectiveMaxAdc ==
    IF r1.n # 0 THEN (max_adc_raw.n * r1.n) \div (r1.n + r2.n) ELSE max_adc_raw.n

\* the range divided by the number of points, not of intervals
IncrementByNumTemps(m) == m \div num_temps

\* line 103: int(max_adc / (num_temps - 1))
Increment(m) == m \div (num_temps - 1)

\* lines 99-103: the effective max ADC and the increment
ComputeMaxAdc ==
    /\ pc = "options" /\ oi > Len(opts)
    /\ max_adc' = EffectiveMaxAdc
    /\ increment' = Increment(EffectiveMaxAdc)
    /\ pc' = "thermistor"
    /\ UNCHANGED << argv, opts, oi, params, t, adcs, counter, logged,
                    stdout, exit, raised, prev >>

\* line 105, exp() overflows in Thermistor.__init__ (line 41)
ThermistorOverflow ==
    /\ pc = "thermistor"
    /\ KConst(r0, t0, beta).raises
    /\ Raise("OverflowError")
    /\ UNCHANGED << argv, opts, oi, params, derived, stdout, prev >>

\* line 105
BuildThermistor ==
    /\ pc = "thermistor"
    /\ ~KConst(r0, t0, beta).raises
    /\ t' = << ThermistorInit(r0, t0, beta, r1, r2, max_adc, vcc) >>
    /\ pc' = "range"
    /\ UNCHANGED << argv, opts, oi, params, max_adc, increment, adcs, counter,
                    logged, stdout, exit, raised, prev >>

\* line 107, increment = 0: range() raises ValueError
RangeStepZero ==
    /\ pc = "range"
    /\ increment = 0
    /\ Raise("ValueError")
    /\ UNCHANGED << argv, opts, oi, params, derived, stdout, prev >>

\* the range closed at its upper end
SampledCodesToMax == Range(1, max_adc + 1, increment)

\* line 107: the sampled codes
SampledCodes == Range(1, max_adc, increment)

SampleCodes ==
    /\ pc = "range"
    /\ increment > 0
    /\ adcs' = SampledCodes
    /\ pc' = "header"
    /\ UNCHANGED << argv, opts, oi, params, max_adc, increment, t, counter,
                    logged, stdout, exit, raised, prev >>

\* lines 114-128
PrintHeader ==
    /\ pc = "header"
    /\ stdout' = stdout \o HeaderLines
    /\ counter' = 0
    /\ pc' = "rows"
    /\ UNCHANGED << argv, opts, oi, params, max_adc, increment, t, adcs,
                    logged, exit, raised, prev >>

\* the code the loop of line 129 turns to next
NextAdc == adcs[counter + 1]

\* the row's temperature taken from the Thermistor object of line 105
RowLogTempFromThermistor(adc) == ThermistorTemp(t[1], adc)

\* line 135 for the next code
RowLogTemp(adc) == LogTempWith1024(adc, r0, t0, beta, vcc)

\* the test of line 134 left out
RowTakesLogAlways(adc) == adc = adc

\* line 134 for the next code
RowTakesLog(adc) == LogBranch(adc, vcc)

\* line 138: the last row carries no comma
IsLastRow(n) == n = Len(adcs)

\* lines 130-141, log branch: one row printed
PrintRowLog ==
    /\ pc = "rows" /\ counter < Len(adcs)
    /\ RowTakesLog(NextAdc)
    /\ RowLogTemp(NextAdc).raises = ""
    /\ logged' = logged \cup {NextAdc}
    /\ counter' = counter + 1
    /\ stdout' = Append(stdout, RowLine(NextAdc, RowLogTemp(NextAdc).temp,
                                        IsLastRow(counter + 1)))
    /\ UNCHANGED << argv, pc, opts, oi, params, max_adc, increment, t, adcs,
                    exit, raised, prev >>

\* lines 130-135, log branch: line 135 raises (ZeroDivisionError)
PrintRowRaises ==
    /\ pc = "rows" /\ counter < Len(adcs)
    /\ RowTakesLog(NextAdc)
    /\ RowLogTemp(NextAdc).raises # ""
    /\ logged' = logged \cup {NextAdc}
    /\ counter' = counter + 1
    /\ Raise(RowLogTemp(NextAdc).raises)
    /\ UNCHANGED << argv, opts, oi, params, max_adc, increment, t, adcs,
                    stdout, prev >>

\* lines 130-141, else branch: temp_adc = 0
PrintRowFallback ==
    /\ pc = "rows" /\ counter < Len(adcs)
    /\ ~RowTakesLog(NextAdc)
    /\ counter' = counter + 1
    /\ stdout' = Append(stdout, RowLine(NextAdc, 0, IsLastRow(counter + 1)))
    /\ UNCHANGED << argv, pc, opts, oi, params, max_adc, increment, t, adcs,
                    logged, exit, raised, prev >>

\* line 142, then main returns
PrintClose ==
    /\ pc = "rows" /\ counter = Len(adcs)
    /\ stdout' = Append(stdout, CloseLine)
    /\ exit' = 0
    /\ pc' = "exited"
    /\ UNCHANGED << argv, opts, oi, params, derived, raised, prev >>

Next ==
    \/ GetoptFails \/ GetoptReturns
    \/ OptionHelp \/ OptionValue \/ OptionValueError
    \/ ComputeMaxAdc
    \/ ThermistorOverflow \/ BuildThermistor
    \/ RangeStepZero \/ SampleCodes
    \/ PrintHeader
    \/ PrintRowLog \/ PrintRowRaises \/ PrintRowFallback
    \/ PrintClose

Spec == Init /\ [][Next]_vars

\* ------------------------------------------------- the script run again
\* the echoed command line of a header (the fourth line printed), as argv
EchoArgv(out) ==
    LET e == out[4]
    IN  << Long("r0", e.r0), Long("t0", e.t0), Long("r1", e.r1), Long("r2", e.r2),
           Long("beta", e.beta), Long("max-adc", e.max_adc), Long("vcc", e.vcc) >>

HasHeader(out) == Len(out) >= 4 /\ out[4].line = "echo"

\* the command lines of a second run: the echoed one, or the first with one
\* more option that decides the sampling
RerunLists ==
    (IF HasHeader(stdout) THEN { EchoArgv(stdout) } ELSE {})
    \cup { Append(argv, tok) : tok \in SamplingTokens }

\* what a finished run leaves behind
Left ==
    [ argv |-> argv, r0 |-> r0, t0 |-> t0, beta |-> beta, r1 |-> r1, r2 |-> r2,
      vcc |-> vcc, max_adc_raw |-> max_adc_raw, max_adc |-> max_adc, t |-> t,
      adcs |-> adcs, stdout |-> stdout, exit |-> exit, raised |-> raised ]

\* lines 147-148, the script is started a second time: main(sys.argv[1:])
\* with fresh locals (lines 65-72) and a fresh stdout
Reinvoke ==
    /\ pc = "exited"
    /\ prev = <<>>
    /\ prev' = << Left >>
    /\ \E av \in RerunLists : argv' = av
    /\ pc' = "getopt"
    /\ opts' = <<>> /\ oi' = 1
    /\ r0' = PyIntVal(DefaultR0)
    /\ t0' = PyIntVal(DefaultT0)
    /\ beta' = PyIntVal(DefaultBeta)
    /\ r1' = PyIntVal(DefaultR1)
    /\ r2' = PyIntVal(DefaultR2)
    /\ num_temps' = DefaultNumTemps
    /\ vcc' = PyFloatVal(DefaultVccMilli)
    /\ max_adc_raw' = PyIntVal(DefaultMaxAdcRaw)
    /\ max_adc' = Unset /\ increment' = Unset
    /\ t' = <<>> /\ adcs' = <<>> /\ counter' = 0
    /\ stdout' = <<>> /\ exit' = Unset /\ raised' = ""
    /\ logged' = {}

\* two runs of the script, the first on a short command line
RerunArgLists == ListsUpTo(Tokens, MaxRerunArgs)

InitRerun == \E av \in RerunArgLists : Start(av) /\ prev = <<>>

NextRerun == Next \/ Reinvoke

SpecRerun == InitRerun /\ [][NextRerun]_vars

\* ---------------------------------------------------------------- claims
IsRow(l) == l.line = "row"
IsNumTemps(l) == l.line = "numtemps"

\* the rows printed so far, and those of another stdout
RowsOf(out) == SelectSeq(out, IsRow)
Rows == RowsOf(stdout)

\* the value on the #define NUMTEMPS line
NumTempsPrinted == SelectSeq(stdout, IsNumTemps)[1].n

ArrayStartedIn(out) == \E i \in 1..Len(out) : out[i] = DeclLine
ArrayStarted == ArrayStartedIn(stdout)

\* main returned after printing the closing line
TableComplete ==
    /\ pc = "exited" /\ raised = "" /\ exit = 0
    /\ Len(stdout) > 0 /\ stdout[Len(stdout)] = CloseLine

\* the domains the parameters are documented to lie in
DocumentedDomain ==
    /\ r0.n > 0 /\ beta.n > 0 /\ r1.n >= 0 /\ r2.n > 0 /\ vcc.n > 0
    /\ max_adc_raw.n > 0 /\ t0.ty = "int"

\* len(range(1, stop, step)) by counting the members of the half-open range
RangeCount(stop, step) == Cardinality({ c \in 1..(stop - 1) : (c - 1) % step = 0 })

\* C1: a run with valid parameters that finishes prints as many rows as
\* range(1, max_adc, floor(max_adc/(num_temps-1))) has members, and the
\* #define NUMTEMPS line carries that same number.
C1_RowCountIsRangeLength ==
    (TableComplete /\ DocumentedDomain) =>
        /\ Len(Rows) = RangeCount(max_adc, max_adc \div (num_temps - 1))
        /\ NumTempsPrinted = Len(Rows)

C1_Witness ==
    /\ TableComplete /\ DocumentedDomain
    /\ r1.n > 0
    /\ Len(Rows) # num_temps

\* C2: the codes of the rows, in the order printed, are strictly
\* increasing, the first is 1, and each lies in [1, max_adc).
C2_CodesIncreaseWithinRange ==
    LET rows == Rows
    IN  \A i \in 1..Len(rows) :
            /\ 1 <= rows[i].adc /\ rows[i].adc < max_adc
            /\ i = 1 => rows[i].adc = 1
            /\ i > 1 => rows[i - 1].adc < rows[i].adc

C2_Witness ==
    /\ TableComplete
    /\ r1.n > 0
    /\ Len(Rows) >= 2
    /\ Rows[Len(Rows)].adc = max_adc - 1

\* C3: the effective max ADC is max_adc_raw when r1 = 0 and
\* floor(max_adc_raw * r1 / (r1 + r2)) when r1 > 0; it never exceeds
\* max_adc_raw.
C3_EffectiveMaxAdcExact ==
    (max_adc # Unset /\ max_adc_raw.n > 0 /\ r1.n >= 0 /\ r2.n > 0) =>
        /\ r1.n = 0 => max_adc = max_adc_raw.n
        /\ r1.n > 0 =>
              /\ max_adc * (r1.n + r2.n) <= max_adc_raw.n * r1.n
              /\ max_adc_raw.n * r1.n < (max_adc + 1) * (r1.n + r2.n)
        /\ max_adc <= max_adc_raw.n

C3_Witness ==
    /\ pc = "exited"
    /\ max_adc # Unset
    /\ r1.n > 0 /\ r1.n # r2.n
    /\ (max_adc_raw.n * r1.n) % (r1.n + r2.n) # 0
    /\ max_adc < max_adc_raw.n

\* 1000*vcc - 3320*(adc/1024.0) <= 0, both sides times 1024
GuardNotPositive(adc) == 1024 * vcc.n <= 3320 * adc

\* C4: a sampled code with 1000*vcc - 3320*(adc/1024.0) <= 0 gets the
\* temperature 0 and raises nothing; the log formula is evaluated only for
\* codes where that quantity is positive.
C4_FallbackIsZeroWithoutLog ==
    /\ LET rows == Rows
       IN  \A i \in 1..Len(rows) :
               GuardNotPositive(rows[i].adc) =>
                   rows[i].temp = 0 /\ rows[i].adc \notin logged
    /\ \A c \in logged : ~GuardNotPositive(c)
    /\ (ArrayStarted /\ raised # "") => ~GuardNotPositive(adcs[counter])
    /\ \A i \in 1..counter : GuardNotPositive(adcs[i]) => Len(Rows) >= i

C4_Witness ==
    /\ TableComplete
    /\ LET rows == Rows
       IN  /\ \E i \in 1..Len(rows) : GuardNotPositive(rows[i].adc) /\ rows[i].temp = 0
           /\ \E i \in 1..Len(rows) :
                 ~GuardNotPositive(rows[i].adc) /\ rows[i].adc \in logged

\* C5: with parameters in the documented domains a run that ends has
\* printed either the whole table (declaration, len(adcs) rows, closing
\* line) or nothing of the array body.
C5_NoPartialTable ==
    (pc = "exited" /\ DocumentedDomain) =>
        \/ ~ArrayStarted
        \/ TableComplete /\ Len(Rows) = Len(adcs)

\* an option getopt has no entry for
Unrecognized(e) ==
    \/ e.kind = "short" /\ e.name \notin ShortOptions
    \/ e.kind = "long" /\ e.name \notin (FlagOptions \cup ValuedOptions)

\* a recognized option complete in itself: a flag, or "--name=value"
SelfContained(e) ==
    \/ e.kind = "short" /\ e.name \in ShortOptions
    \/ e.kind = "long" /\ e.name \in FlagOptions /\ e.arg = NoArg
    \/ e.kind = "long" /\ e.name \in ValuedOptions /\ e.arg # NoArg

\* an unrecognized option stands where getopt reads options
HasUnrecognizedOption(av) ==
    \E i \in 1..Len(av) :
        Unrecognized(av[i]) /\ \A j \in 1..(i - 1) : SelfContained(av[j])

\* getopt accepts the argument list and -h or --help is among its options
HelpAmongOptions(av) ==
    LET g == Getopt(av, <<>>)
    IN  g.ok /\ \E i \in 1..Len(g.opts) : g.opts[i].opt \in {"-h", "--help"}

\* C6: with -h or --help among the accepted options the run ends with the
\* usage text alone and status 0, whatever precedes or follows it; with an
\* unrecognized option it ends with the usage text alone and status 2.
C6_HelpAndUnrecognized ==
    pc = "exited" =>
        /\ HelpAmongOptions(argv) => stdout = <<UsageLine>> /\ exit = 0
        /\ HasUnrecognizedOption(argv) => stdout = <<UsageLine>> /\ exit = 2

\* the parameters are the defaults of lines 65-72
DefaultParams ==
    /\ r0.n = 100000 /\ t0.n = 25 /\ beta.n = 4267 /\ r1.n = 0 /\ r2.n = 4700
    /\ max_adc_raw.n = 1023 /\ vcc.n = 3279 /\ num_temps = 61

\* C7: with the default parameters the increment is 17, the first code is
\* 1, the table has the 61 rows of the codes 1, 18, ..., 1021, and NUMTEMPS
\* is printed as 61.
C7_DefaultTable ==
    (DefaultParams /\ pc \in {"thermistor", "range", "header", "rows", "exited"}
     /\ increment # Unset) =>
        /\ increment = 17
        /\ pc \in {"header", "rows"} => Len(adcs) = 61 /\ adcs[1] = 1
        /\ TableComplete =>
              LET rows == Rows
              IN  /\ Len(rows) = 61
                  /\ \A i \in 1..61 : rows[i].adc = 1 + 17 * (i - 1)
                  /\ NumTempsPrinted = 61

C7_Witness ==
    /\ DefaultParams /\ TableComplete
    /\ Rows[61].adc = 1021

\* C8: the echoed command line carries the values the run was invoked
\* with, so that a run on the echoed options has the same effective max
\* ADC, the same sampled codes and the same rows.
C8_EchoReproducesRun ==
    (prev # <<>> /\ HasHeader(prev[1].stdout) /\ argv = EchoArgv(prev[1].stdout)) =>
        /\ prev[1].stdout[4].max_adc.n = prev[1].max_adc_raw.n
        /\ pc = "exited" =>
              /\ max_adc = prev[1].max_adc
              /\ adcs = prev[1].adcs
              /\ Rows = RowsOf(prev[1].stdout)

\* two runs agree on r0, t0, beta and vcc
SameThermalParams ==
    /\ r0.n = prev[1].r0.n /\ t0.n = prev[1].t0.n
    /\ beta.n = prev[1].beta.n /\ vcc.n = prev[1].vcc.n

\* C9: two runs that agree on r0, t0, beta and vcc print the same
\* temperature for every code in both tables, whatever r1, r2, max_adc_raw
\* and the Thermistor objects of the two runs are.
C9_TemperatureOfCodeOnly ==
    (prev # <<>> /\ SameThermalParams) =>
        LET mine == Rows
            theirs == RowsOf(prev[1].stdout)
        IN  \A i \in 1..Len(mine) : \A j \in 1..Len(theirs) :
                mine[i].adc = theirs[j].adc => mine[i].temp = theirs[j].temp

C9_Witness ==
    /\ prev # <<>> /\ SameThermalParams /\ TableComplete
    /\ max_adc # prev[1].max_adc
    /\ t # prev[1].t
    /\ LET mine == Rows
           theirs == RowsOf(prev[1].stdout)
       IN  \E i \in 2..Len(mine) : \E j \in 2..Len(theirs) :
               /\ mine[i].adc = theirs[j].adc
               /\ mine[i].adc \in logged

=============================================================================
